---- MODULE Spec2Model ----
(***************************************************************************)
(* Model of GATT/server.py: a BLE peripheral that takes a pairing token    *)
(* and Wi-Fi credentials over GATT characteristics, drives nmcli to        *)
(* connect, and exposes the outcome through a read-only characteristic.    *)
(*                                                                         *)
(* Python values are modelled as follows.                                  *)
(*   bytes          a sequence of integers 0..255                          *)
(*   str            a TLA+ string (Len, Head, Tail, SubSeq and \o work on  *)
(*                  strings in TLC); a decoded token is a sequence of code *)
(*                  points, because it may hold U+FFFD                     *)
(*   None / x       Optional: <<>> is None, <<x>> is the value x           *)
(***************************************************************************)
EXTENDS Integers, Sequences, FiniteSets, TLC

VARIABLES
    is_authorized,      \* server.py:37  nonlocal flag of main()
    wifi_status,        \* server.py:36  {"success": ..., "reason": ...}
    wifi_credentials,   \* server.py:35  {"ssid": ..., "password": ...}
    value,              \* server.py:34  bytes of the generic characteristic
    wifi_iface_arg,     \* server.py:26  args.wifi_iface, fixed at start
    dispatch,           \* "idle": main loop waits; "try_connect_wifi": the
                        \* credential handler is inside that call; "done":
                        \* a callback has run
    event               \* the callback that has just run: its input, the
                        \* subprocess calls it made, and what it returned

vars == <<is_authorized, wifi_status, wifi_credentials, value, wifi_iface_arg, dispatch, event>>

---------------------------------------------------------------------------
(* Bounds of the model.                                                    *)

\* Longest run of padding bytes written before or after a token core.
MaxPad == 1

\* Most subprocess calls of one connection attempt that may end otherwise
\* than with exit status 0 and the expected output.
MaxFaults == 2

---------------------------------------------------------------------------
(* Python None and truthiness.                                             *)

None == <<>>

Some(x) == <<x>>

\* `not x` for x: Optional[str]: None and "" are falsy.
FalsyNoneOnly(x) == x = None

Falsy(x) == x = None \/ x[1] = ""

---------------------------------------------------------------------------
(* str helpers, computed character by character.                           *)

\* Characters str.strip() removes, among those that occur in the model.
IsSpaceChar(c) == c \in {" ", "\n", "\t", "\r"}

RECURSIVE LStrip(_)
LStrip(s) ==
    IF s = "" THEN ""
    ELSE IF IsSpaceChar(Head(s)) THEN LStrip(Tail(s)) ELSE s

RECURSIVE RStrip(_)
RStrip(s) ==
    IF s = "" THEN ""
    ELSE IF IsSpaceChar(SubSeq(s, Len(s), Len(s))) THEN RStrip(SubSeq(s, 1, Len(s) - 1)) ELSE s

\* str.strip()
Strip(s) == RStrip(LStrip(s))

\* str.startswith(p)
StartsWith(s, p) == Len(s) >= Len(p) /\ SubSeq(s, 1, Len(p)) = p

\* `sub in s` for two strings
Contains(s, sub) ==
    \E i \in 1..(Len(s) - Len(sub) + 1) : SubSeq(s, i, i + Len(sub) - 1) = sub

\* The place of the first sep in s, 0 when there is none.
FirstIndex(s, sep) ==
    LET places == {i \in 1..Len(s) : SubSeq(s, i, i) = sep}
    IN  IF places = {} THEN 0 ELSE CHOOSE i \in places : \A j \in places : i <= j

\* str.split(sep) for a one-character separator: always at least one field.
RECURSIVE Split(_, _)
Split(s, sep) ==
    LET at == FirstIndex(s, sep)
    IN  IF at = 0 THEN <<s>>
        ELSE <<SubSeq(s, 1, at - 1)>> \o Split(SubSeq(s, at + 1, Len(s)), sep)

\* str.splitlines() over "\n": no trailing empty line, "" gives [].
SplitLines(s) ==
    LET parts == Split(s, "\n")
    IN  IF parts[Len(parts)] = "" THEN SubSeq(parts, 1, Len(parts) - 1) ELSE parts

\* `x in seq`
InSeq(x, seq) == \E i \in 1..Len(seq) : seq[i] = x

---------------------------------------------------------------------------
(* bytes -> str for the auth token.                                        *)

ReplacementChar == 65533

\* bytes.decode("utf-8", errors="replace") on bytes that are ASCII or a byte
\* (0xF8..0xFF) that no UTF-8 sequence contains: each such byte becomes
\* U+FFFD, every ASCII byte its own code point.
DecodeReplace(b) == [i \in 1..Len(b) |-> IF b[i] < 128 THEN b[i] ELSE ReplacementChar]

\* Code points str.strip() removes (ASCII range).
IsSpaceCode(c) == c \in {9, 10, 11, 12, 13, 28, 29, 30, 31, 32}

RECURSIVE LStripCodes(_)
LStripCodes(s) ==
    IF s = <<>> THEN <<>>
    ELSE IF IsSpaceCode(Head(s)) THEN LStripCodes(Tail(s)) ELSE s

RECURSIVE RStripCodes(_)
RStripCodes(s) ==
    IF s = <<>> THEN <<>>
    ELSE IF IsSpaceCode(s[Len(s)]) THEN RStripCodes(SubSeq(s, 1, Len(s) - 1)) ELSE s

StripCodes(s) == RStripCodes(LStripCodes(s))

\* args.auth_token, default "pair-token-123", as code points.
auth_token == <<112, 97, 105, 114, 45, 116, 111, 107, 101, 110, 45, 49, 50, 51>>

---------------------------------------------------------------------------
(* subprocess: what one call of nmcli can come to.                         *)
(*                                                                         *)
(* A connection attempt runs in a world w:                                 *)
(*   w.nmcli   whether the nmcli executable exists (else every call raises *)
(*             FileNotFoundError)                                          *)
(*   w.calls   the calls made so far, in order, each with its result       *)
(*   w.faults  how many of them ended otherwise than expected              *)
(*   w.saved   the saved connection profiles of NetworkManager             *)
(* Every operator that calls nmcli returns the set of all its possible     *)
(* outcomes, each with the world it leaves.                                *)

\* subprocess.CompletedProcess
Exit(rc, out, err) == [k |-> "exit", returncode |-> rc, stdout |-> out, stderr |-> err]

\* subprocess.TimeoutExpired(cmd, timeout)
TimeoutExpired(t) == [k |-> "TimeoutExpired", timeout |-> t]

FileNotFoundError == [k |-> "FileNotFoundError"]

\* A Python exception raised by the handler's own code (not by subprocess).
PyError(cls, msg) == [k |-> cls, msg |-> msg]

IsException(r) == r.k # "exit"

\* str(e) for the exceptions of the model. (TimeoutExpired prints the
\* command list too; the model keeps the words that tell it is a timeout.)
ExcText(e) ==
    CASE e.k = "TimeoutExpired" ->
            "Command timed out after " \o ToString(e.timeout) \o " seconds"
      [] e.k = "FileNotFoundError" ->
            "[Errno 2] No such file or directory: 'nmcli'"
      [] OTHER -> e.msg

\* saved: the connection profiles NetworkManager holds when the attempt
\* starts, in listing order, each [name, uuid, type, ssid].
World(nmcli, saved) == [nmcli |-> nmcli, saved |-> saved, calls |-> <<>>, faults |-> 0]

\* _run(cmd, timeout): subprocess.run(cmd, capture_output, text, timeout).
\* `expected` and `faulty` are the CompletedProcess values this command can
\* produce; a timeout is possible for every command.
_run(w, cmd, timeout, expected, faulty) ==
    LET results ==
            IF ~w.nmcli THEN {FileNotFoundError}
            ELSE expected \cup
                 (IF w.faults < MaxFaults THEN faulty \cup {TimeoutExpired(timeout)} ELSE {})
    IN  { [res |-> r,
           w   |-> [w EXCEPT !.calls = Append(@, [cmd |-> cmd, res |-> r]),
                             !.faults = IF r \in expected \/ ~w.nmcli THEN @ ELSE @ + 1]]
          : r \in results }

\* A refusal (non-zero exit status) with a message on stderr.
Refusal == Exit(8, "", "Error: NetworkManager is not running.\n")

\* What a function comes to: a value returned or an exception raised.
Return(v) == [k |-> "return", v |-> v]

Raise(e) == [k |-> "raise", e |-> e]

\* `a or b or c` for three strings
Or3(a, b, c) == IF a # "" THEN a ELSE IF b # "" THEN b ELSE c

\* str.split(sep, maxsplit)
RECURSIVE SplitMax(_, _, _)
SplitMax(s, sep, n) ==
    LET at == FirstIndex(s, sep)
    IN  IF at = 0 \/ n = 0 THEN <<s>>
        ELSE <<SubSeq(s, 1, at - 1)>> \o SplitMax(SubSeq(s, at + 1, Len(s)), sep, n - 1)

---------------------------------------------------------------------------
(* _detect_wifi_iface                                                      *)

\* Outputs of `nmcli -t -f DEVICE,TYPE,STATE dev`.
DevOutputs ==
    { "wlan0:wifi:disconnected\nlo:loopback:unmanaged\n",
      "eth0:ethernet:connected\nwlan0:wifi:disconnected\nwlan1:wifi:connected\n",
      "eth0:ethernet:connected\nlo:loopback:unmanaged\n" }

\* server.py:60-64: the (device, state) pairs of the lines whose TYPE is wifi.
WifiDevs(stdout) ==
    LET lines == SplitLines(stdout)
        parts(i) == Split(lines[i], ":")
        IsWifi(i) == Len(parts(i)) >= 3 /\ parts(i)[2] = "wifi"
        idx == SelectSeq([i \in 1..Len(lines) |-> i], IsWifi)
    IN  [j \in 1..Len(idx) |-> <<parts(idx[j])[1], parts(idx[j])[3]>>]

\* server.py:65-70: a connected Wi-Fi device, else the first one, else None.
PickFirstWifiDev(wifi_devs) ==
    IF wifi_devs = <<>> THEN None ELSE Some(wifi_devs[1][1])

PickWifiDevOrDefault(wifi_devs) ==
    IF wifi_devs = <<>> THEN Some("wlan0")
    ELSE IF \E i \in 1..Len(wifi_devs) : wifi_devs[i][2] = "connected"
         THEN LET first == CHOOSE i \in 1..Len(wifi_devs) :
                              /\ wifi_devs[i][2] = "connected"
                              /\ \A j \in 1..(i - 1) : wifi_devs[j][2] # "connected"
              IN  Some(wifi_devs[first][1])
         ELSE Some(wifi_devs[1][1])

PickWifiDev(wifi_devs) ==
    IF wifi_devs = <<>> THEN None
    ELSE IF \E i \in 1..Len(wifi_devs) : wifi_devs[i][2] = "connected"
         THEN LET first == CHOOSE i \in 1..Len(wifi_devs) :
                              /\ wifi_devs[i][2] = "connected"
                              /\ \A j \in 1..(i - 1) : wifi_devs[j][2] # "connected"
              IN  Some(wifi_devs[first][1])
         ELSE Some(wifi_devs[1][1])

\* server.py:56-72 where nmcli, when it lists the devices, prints one of
\* `listings`. Each outcome is [w, v] with v the interface name or None.
DetectAmong(w, listings) ==
    { [w |-> x.w,
       v |-> IF IsException(x.res) THEN None
             ELSE IF x.res.returncode # 0 THEN None
             ELSE PickWifiDev(WifiDevs(x.res.stdout))]
      : x \in _run(w, <<"nmcli", "-t", "-f", "DEVICE,TYPE,STATE", "dev">>, 10,
                   {Exit(0, out, "") : out \in listings}, {Refusal}) }

_detect_wifi_iface(w) == DetectAmong(w, DevOutputs)

\* server.py:134-135: the interface given, else the detected one.
ChooseInterface(w, wifi_iface, listings) ==
    IF Falsy(wifi_iface) THEN DetectAmong(w, listings)
    ELSE {[w |-> w, v |-> wifi_iface]}

---------------------------------------------------------------------------
(* forget_saved_wifi_profiles                                              *)

\* nmcli's terse output puts a backslash before ":" and "\" in a value.
RECURSIVE NmEscape(_)
NmEscape(s) ==
    LET colon == FirstIndex(s, ":")
        slash == FirstIndex(s, "\\")
        at    == IF colon = 0 THEN slash
                 ELSE IF slash = 0 THEN colon
                 ELSE IF colon < slash THEN colon ELSE slash
    IN  IF at = 0 THEN s
        ELSE SubSeq(s, 1, at - 1) \o "\\" \o SubSeq(s, at, at)
             \o NmEscape(SubSeq(s, at + 1, Len(s)))

\* One line of `nmcli -t -f NAME,UUID,TYPE con show` per saved profile.
RECURSIVE ConShowOutput(_)
ConShowOutput(saved) ==
    IF saved = <<>> THEN ""
    ELSE NmEscape(Head(saved).name) \o ":" \o Head(saved).uuid \o ":" \o Head(saved).type \o "\n"
         \o ConShowOutput(Tail(saved))

\* Output of `nmcli -g 802-11-wireless.ssid con show <uuid>`.
StoredSsidOutput(saved, uuid) ==
    IF \E i \in 1..Len(saved) : saved[i].uuid = uuid
    THEN (CHOOSE p \in {saved[i] : i \in 1..Len(saved)} : p.uuid = uuid).ssid \o "\n"
    ELSE ""

\* server.py:90-108: the loop over the listed lines. Each outcome is
\* [w, out] with out the count returned or the exception raised.
RECURSIVE ForgetLoop(_, _, _, _)
ForgetLoop(w, lines, ssid, deleted) ==
    IF lines = <<>> THEN {[w |-> w, out |-> Return(deleted)]}
    ELSE
      LET parts == SplitMax(Head(lines), ":", 2)
      IN  IF Len(parts) # 3 THEN ForgetLoop(w, Tail(lines), ssid, deleted)
          ELSE IF parts[3] # "802-11-wireless" THEN ForgetLoop(w, Tail(lines), ssid, deleted)
          ELSE
            UNION {
              IF IsException(ss.res) THEN {[w |-> ss.w, out |-> Raise(ss.res)]}
              ELSE IF Strip(ss.res.stdout) = ssid
              THEN UNION {
                     IF IsException(del.res) THEN {[w |-> del.w, out |-> Raise(del.res)]}
                     ELSE ForgetLoop(del.w, Tail(lines), ssid, deleted + 1)
                     : del \in _run(ss.w, <<"nmcli", "con", "delete", parts[2]>>, 10,
                                    {Exit(0, "", "")},
                                    {Refusal}) }
              ELSE ForgetLoop(ss.w, Tail(lines), ssid, deleted)
              : ss \in _run(w, <<"nmcli", "-g", "802-11-wireless.ssid", "con", "show", parts[2]>>, 10,
                            {Exit(0, StoredSsidOutput(w.saved, parts[2]), "")},
                            {Refusal}) }

forget_saved_wifi_profiles(w, ssid) ==
    IF ssid = "" THEN {[w |-> w, out |-> Return(0)]}
    ELSE
      UNION {
        IF IsException(res.res) THEN {[w |-> res.w, out |-> Raise(res.res)]}
        ELSE IF res.res.returncode # 0 THEN {[w |-> res.w, out |-> Return(0)]}
        ELSE ForgetLoop(res.w, SplitLines(res.res.stdout), ssid, 0)
        : res \in _run(w, <<"nmcli", "-t", "-f", "NAME,UUID,TYPE", "con", "show">>, 10,
                       {Exit(0, ConShowOutput(w.saved), "")}, {Refusal}) }

---------------------------------------------------------------------------
(* try_connect_wifi                                                        *)
(* Each outcome is [w, out]: out is Return([ok, reason]) or Raise(e) for   *)
(* an exception that leaves the function.                                  *)

Result(ok, reason) == Return([ok |-> ok, reason |-> reason])

\* What nmcli prints when a connect or an activation is refused.
NoNetworkMsg(ssid) == "Error: No network with SSID '" \o ssid \o "' found.\n"

SecretsMsg == "Error: Secrets were required, but not provided.\n"

AddFailedMsg == "Error: Failed to add connection: invalid interface name.\n"

\* server.py:217-221: activate the profile and report.
ActivateProfileOwnMsg(w, con_name, wifi_iface, msg) ==
    { IF IsException(up.res) THEN [w |-> up.w, out |-> Raise(up.res)]
      ELSE IF up.res.returncode = 0
      THEN [w |-> up.w, out |-> Result(TRUE, "connected (profile) via " \o wifi_iface)]
      ELSE [w |-> up.w, out |-> Result(FALSE, Strip(Or3(up.res.stderr, up.res.stdout, "nmcli up failed")))]
      : up \in _run(w, <<"nmcli", "con", "up", con_name>>, 30,
                    {Exit(0, "", "")},
                    {Exit(4, "", SecretsMsg), Exit(1, "", "")}) }

ActivateProfile(w, con_name, wifi_iface, msg) ==
    { IF IsException(up.res) THEN [w |-> up.w, out |-> Raise(up.res)]
      ELSE IF up.res.returncode = 0
      THEN [w |-> up.w, out |-> Result(TRUE, "connected (profile) via " \o wifi_iface)]
      ELSE [w |-> up.w, out |-> Result(FALSE, Strip(Or3(up.res.stderr, up.res.stdout, msg)))]
      : up \in _run(w, <<"nmcli", "con", "up", con_name>>, 30,
                    {Exit(0, "", "")},
                    {Exit(4, "", SecretsMsg), Exit(1, "", "")}) }

\* server.py:212-215: set the pre-shared key when a password was given.
SecureProfileOpen(w, con_name, password, wifi_iface, msg) ==
    ActivateProfile(w, con_name, wifi_iface, msg)

SecureProfile(w, con_name, password, wifi_iface, msg) ==
    IF password = "" THEN ActivateProfile(w, con_name, wifi_iface, msg)
    ELSE
      UNION {
        IF IsException(km.res) THEN {[w |-> km.w, out |-> Raise(km.res)]}
        ELSE UNION {
               IF IsException(psk.res) THEN {[w |-> psk.w, out |-> Raise(psk.res)]}
               ELSE ActivateProfile(psk.w, con_name, wifi_iface, msg)
               : psk \in _run(km.w, <<"nmcli", "con", "modify", con_name, "wifi-sec.psk", password>>, 10,
                              {Exit(0, "", "")}, {Refusal}) }
        : km \in _run(w, <<"nmcli", "con", "modify", con_name, "wifi-sec.key-mgmt", "wpa-psk">>, 10,
                      {Exit(0, "", "")}, {Refusal}) }

\* server.py:194-221: the explicit-profile fallback.
FallbackProfile(w, ssid, password, wifi_iface, msg) ==
    LET con_name == "bleprov-" \o ssid
    IN  UNION {
          UNION {
            IF IsException(add.res) THEN {[w |-> add.w, out |-> Raise(add.res)]}
            ELSE IF add.res.returncode # 0
            THEN {[w |-> add.w,
                   out |-> Result(FALSE, Strip(Or3(add.res.stderr, add.res.stdout, msg)))]}
            ELSE UNION {
                   IF IsException(hid.res) THEN {[w |-> hid.w, out |-> Raise(hid.res)]}
                   ELSE SecureProfile(hid.w, con_name, password, wifi_iface, msg)
                   : hid \in _run(add.w, <<"nmcli", "con", "modify", con_name, "wifi.hidden", "yes">>, 10,
                                  {Exit(0, "", "")}, {Refusal}) }
            : add \in _run(del.w, <<"nmcli", "con", "add", "type", "wifi", "ifname", wifi_iface,
                                    "con-name", con_name, "ssid", ssid>>, 15,
                           {Exit(0, "", "")},
                           {Exit(2, "", AddFailedMsg), Exit(1, "", "")}) }
          : del \in _run(w, <<"nmcli", "con", "delete", con_name>>, 10,
                         {Exit(0, "", "")},
                         {Exit(10, "", "Error: unknown connection.\n")}) }

\* server.py:193: whether a refused direct connect goes on to the fallback.
NeedsFallbackMsgOnly(msg, visible) == Contains(msg, "No network with SSID")

NeedsFallback(msg, visible) == Contains(msg, "No network with SSID") \/ ~visible

\* server.py:180-185: the reason reported for an exception of the direct
\* connect; the except clauses are tried in order.
ConnectExceptionReasonGeneric(e) == "exception: " \o ExcText(e)

ConnectExceptionReason(e) ==
    CASE e.k = "TimeoutExpired" -> "timeout"
      [] e.k = "FileNotFoundError" -> "nmcli not found (NetworkManager not installed)"
      [] OTHER -> "exception: " \o ExcText(e)

\* server.py:187
ConnectSucceededInverted(res) == res.returncode # 0

ConnectSucceeded(res) == res.returncode = 0

\* server.py:174-223: the direct connect and what follows it.
DirectConnect(w, ssid, password, wifi_iface, timeout_s, visible) ==
    LET cmd == <<"nmcli", "dev", "wifi", "connect", ssid, "ifname", wifi_iface>>
               \o (IF password # "" THEN <<"password", password>> ELSE <<>>)
    IN  UNION {
          IF IsException(res.res)
          THEN {[w |-> res.w, out |-> Result(FALSE, ConnectExceptionReason(res.res))]}
          ELSE IF ConnectSucceeded(res.res)
          THEN {[w |-> res.w, out |-> Result(TRUE, "connected via " \o wifi_iface)]}
          ELSE LET msg == Strip(Or3(res.res.stderr, res.res.stdout, "nmcli connect failed"))
               IN  IF NeedsFallback(msg, visible)
                   THEN FallbackProfile(res.w, ssid, password, wifi_iface, msg)
                   ELSE {[w |-> res.w, out |-> Result(FALSE, msg)]}
          : res \in _run(w, cmd, timeout_s,
                         {Exit(0, "", "")},
                         {Exit(10, "", NoNetworkMsg(ssid)), Exit(4, "", SecretsMsg), Exit(1, "", "")}) }

\* server.py:161-171: each outcome is [w, v] with v the flag `visible`.
VisibilityCheckOptimistic(w, ssid, wifi_iface) ==
    { [w |-> lst.w,
       v |-> IF IsException(lst.res) THEN TRUE
             ELSE IF lst.res.returncode = 0 THEN InSeq(ssid, SplitLines(lst.res.stdout))
             ELSE TRUE]
      : lst \in _run(w, <<"nmcli", "-t", "-f", "SSID", "dev", "wifi", "list", "ifname", wifi_iface>>, 15,
                     {Exit(0, "Guest\n" \o ssid \o "\n", ""), Exit(0, "Guest\n" \o ssid \o "-5G\n", "")},
                     {Refusal}) }

VisibilityCheck(w, ssid, wifi_iface) ==
    { [w |-> lst.w,
       v |-> IF IsException(lst.res) THEN FALSE
             ELSE IF lst.res.returncode = 0 THEN InSeq(ssid, SplitLines(lst.res.stdout))
             ELSE FALSE]
      : lst \in _run(w, <<"nmcli", "-t", "-f", "SSID", "dev", "wifi", "list", "ifname", wifi_iface>>, 15,
                     {Exit(0, "Guest\n" \o ssid \o "\n", ""), Exit(0, "Guest\n" \o ssid \o "-5G\n", "")},
                     {Refusal}) }

\* server.py:139-159: radio on, rescan, forget; every exception is swallowed.
\* The result is the set of worlds in which the attempt goes on.
Prepare(w, ssid, wifi_iface) ==
    UNION {
      UNION {
        { fg.w : fg \in forget_saved_wifi_profiles(scan.w, ssid) }
        : scan \in _run(radio.w, <<"nmcli", "dev", "wifi", "rescan", "ifname", wifi_iface>>, 15,
                        {Exit(0, "", "")}, {Refusal}) }
      : radio \in _run(w, <<"nmcli", "radio", "wifi", "on">>, 10, {Exit(0, "", "")}, {Refusal}) }

try_connect_wifi(w, ssid, password, wifi_iface, timeout_s) ==
    IF Falsy(ssid) THEN {[w |-> w, out |-> Result(FALSE, "missing ssid")]}
    ELSE
      LET pw == IF password = None THEN "" ELSE password[1]
          ifaces == ChooseInterface(w, wifi_iface, DevOutputs)
      IN  UNION {
            IF Falsy(d.v)
            THEN {[w |-> d.w,
                   out |-> Result(FALSE, "no wifi interface found (nmcli dev shows no TYPE=wifi)")]}
            ELSE UNION {
                   UNION {
                     DirectConnect(vis.w, ssid[1], pw, d.v[1], timeout_s, vis.v)
                     : vis \in VisibilityCheck(pw1, ssid[1], d.v[1]) }
                   : pw1 \in Prepare(d.w, ssid[1], d.v[1]) }
            : d \in ifaces }

---------------------------------------------------------------------------
(* The bytes of a credential write.                                        *)
(*                                                                         *)
(* A payload is described by what strict decoding and json.loads make of   *)
(* it: [utf8, json] with json one of                                       *)
(*   [t |-> "malformed"]                   not a JSON text                 *)
(*   [t |-> "list"], [t |-> "NoneType"]    JSON, but no object             *)
(*   [t |-> "dict", ssid, password]        a JSON object; each member is   *)
(*                                         Absent, JNull or JStr(s)        *)

Absent == [m |-> "absent"]

JNull == [m |-> "null"]

JStr(str) == [m |-> "str", s |-> str]

\* dict.get(key): None when the key is absent, the value otherwise (JSON
\* null is None).
DictGet(member) == IF member.m = "str" THEN Some(member.s) ELSE None

\* server.py:276: json.loads(b.decode("utf-8")), as Return(data) or Raise(e).
LoadJson(val) ==
    IF ~val.utf8
    THEN Raise(PyError("UnicodeDecodeError",
                       "'utf-8' codec can't decode byte 0xff in position 0: invalid start byte"))
    ELSE IF val.json.t = "malformed"
    THEN Raise(PyError("JSONDecodeError", "Expecting value: line 1 column 1 (char 0)"))
    ELSE Return(val.json)

\* server.py:277-278: data.get(...) on what json.loads returned.
GetCredentials(data) ==
    IF data.t # "dict"
    THEN Raise(PyError("AttributeError", "'" \o data.t \o "' object has no attribute 'get'"))
    ELSE Return([ssid |-> DictGet(data.ssid), password |-> DictGet(data.password)])

\* server.py:284: args.wifi_iface.strip() or None
PinnedIface(arg) == IF Strip(arg) = "" THEN None ELSE Some(Strip(arg))

\* server.py:271-272
NotAuthorized == [success |-> Some(FALSE), reason |-> "not authorized"]

\* server.py:298-301
InvalidJsonUnset(e) == [success |-> None, reason |-> "invalid json: " \o ExcText(e)]

InvalidJsonUntagged(e) == [success |-> Some(FALSE), reason |-> ExcText(e)]

InvalidJson(e) == [success |-> Some(FALSE), reason |-> "invalid json: " \o ExcText(e)]

\* server.py:275-301: the body of write_wifi_credentials once authorized.
\* Each outcome tells the status it leaves, the credentials it stores (when
\* `parsed`), whether try_connect_wifi was called, what that call came to
\* and the subprocess calls made.
AuthorizedWrite(val, iface_arg, w) ==
    LET data == LoadJson(val)
        got  == IF data.k = "raise" THEN data ELSE GetCredentials(data.v)
    IN  IF got.k = "raise"
        THEN {[status |-> InvalidJson(got.e), parsed |-> FALSE, credentials |-> None,
               attempted |-> FALSE, out |-> got, calls |-> <<>>]}
        ELSE { [status |-> IF o.out.k = "raise" THEN InvalidJson(o.out.e)
                           ELSE [success |-> Some(o.out.v.ok), reason |-> o.out.v.reason],
                parsed |-> TRUE,
                credentials |-> Some(got.v),
                attempted |-> TRUE,
                out |-> o.out,
                calls |-> o.w.calls]
               : o \in try_connect_wifi(w, got.v.ssid, got.v.password, PinnedIface(iface_arg), 35) }

\* server.py:269: the gate of write_wifi_credentials.
RejectedNever(authorized) == FALSE

Rejected(authorized) == ~authorized

---------------------------------------------------------------------------
(* json.dumps                                                              *)

\* json.dumps of a str: a backslash before `"` and `\`, \n for a line feed;
\* the text between two such characters is copied.
RECURSIVE JsonEscape(_)
JsonEscape(s) ==
    LET places == {i \in 1..Len(s) : SubSeq(s, i, i) \in {"\"", "\\", "\n"}}
    IN  IF places = {} THEN s
        ELSE LET at == CHOOSE i \in places : \A j \in places : i <= j
                 c  == SubSeq(s, at, at)
             IN  SubSeq(s, 1, at - 1)
                 \o (IF c = "\n" THEN "\\n" ELSE "\\" \o c)
                 \o JsonEscape(SubSeq(s, at + 1, Len(s)))

JsonString(s) == "\"" \o JsonEscape(s) \o "\""

\* json.dumps(wifi_status): keys in insertion order, ", " and ": " separators.
DumpStatusNoNull(st) ==
    "{\"success\": "
    \o (IF st.success = Some(TRUE) THEN "true" ELSE "false")
    \o ", \"reason\": " \o JsonString(st.reason) \o "}"

DumpStatus(st) ==
    "{\"success\": "
    \o (IF st.success = None THEN "null" ELSE IF st.success[1] THEN "true" ELSE "false")
    \o ", \"reason\": " \o JsonString(st.reason) \o "}"

\* server.py:39-45 with --fw 1.0.0 --device-id hub-001
HUB_IDENTITY ==
    "{\"type\": \"SMARTTUPPLEWARE_HUB\", \"vendor\": \"ZHAW\", \"model\": \"DVHUB\", "
    \o "\"fw\": \"1.0.0\", \"device_id\": \"hub-001\"}"

---------------------------------------------------------------------------
(* What the central may write.                                             *)

\* Bytes written around a token: space, newline, an invalid byte.
PadBytes == {32, 10, 255}

RECURSIVE Pads(_)
Pads(n) ==
    IF n = 0 THEN {<<>>}
    ELSE Pads(n - 1) \cup {<<b>> \o p : b \in PadBytes, p \in {q \in Pads(n - 1) : Len(q) = n - 1}}

\* The configured token (ASCII: its bytes are its code points), the token
\* without its last byte, and nothing.
TokenCores == {auth_token, SubSeq(auth_token, 1, Len(auth_token) - 1), <<>>}

AuthWrites == {pre \o core \o post : pre \in Pads(MaxPad), core \in TokenCores, post \in Pads(MaxPad)}

Members == {Absent, JNull, JStr(""), JStr("HomeNet")}

Passwords == {Absent, JStr(""), JStr("secret1")}

CredentialWrites ==
    {[utf8 |-> FALSE, json |-> [t |-> "malformed"]]}
    \cup {[utf8 |-> TRUE, json |-> [t |-> x]] : x \in {"malformed", "list", "NoneType"}}
    \cup {[utf8 |-> TRUE, json |-> [t |-> "dict", ssid |-> m, password |-> pw]]
          : m \in Members, pw \in Passwords}

\* b"ZHAW-SMARTTUPPLEWARE" (server.py:34)
InitialValue == <<90, 72, 65, 87, 45, 83, 77, 65, 82, 84, 84, 85, 80, 80, 76, 69, 87, 65, 82, 69>>

GenericWrites == {<<104, 105>>}

\* The saved profiles NetworkManager may hold when an attempt starts.
SavedStores ==
    { << [name |-> "HomeNet", uuid |-> "u1", type |-> "802-11-wireless", ssid |-> "HomeNet"],
         [name |-> "Wired", uuid |-> "u2", type |-> "802-3-ethernet", ssid |-> ""] >> }

\* args.wifi_iface: auto-detect, or pinned.
IfaceArgs == {"", "wlan0"}

\* AuthorizedWrite for every payload, configuration and environment of the
\* model: a constant, so that it is computed once.
AuthorizedWrites ==
    [x \in {<<val, arg, nmcli, saved>> : val \in CredentialWrites, arg \in IfaceArgs,
                                          nmcli \in BOOLEAN, saved \in SavedStores} |->
        AuthorizedWrite(x[1], x[2], World(x[3], x[4]))]

---------------------------------------------------------------------------
(* State machine: one action per GATT callback.                            *)

NoEvent == [kind |-> "none"]

Init ==
    /\ is_authorized = FALSE
    /\ wifi_status = [success |-> None, reason |-> "not attempted"]
    /\ wifi_credentials = [ssid |-> None, password |-> None]
    /\ value = InitialValue
    /\ wifi_iface_arg \in IfaceArgs
    /\ dispatch = "idle"
    /\ event = NoEvent

\* server.py:255-256: token = decode(...).strip(); token == args.auth_token
TokenMatchesUnstripped(val) == DecodeReplace(val) = auth_token

TokenMatches(val) == StripCodes(DecodeReplace(val)) = auth_token

\* server.py:245-258
write_auth(val) ==
    /\ dispatch = "idle"
    /\ is_authorized' = TokenMatches(val)
    /\ event' = [kind |-> "write_auth", val |-> val]
    /\ dispatch' = "done"
    /\ UNCHANGED <<wifi_status, wifi_credentials, value, wifi_iface_arg>>

\* server.py:276-278: the payload decodes, parses and yields credentials, so
\* that the handler goes on to call try_connect_wifi.
Parses(val) ==
    /\ LoadJson(val).k # "raise"
    /\ GetCredentials(LoadJson(val).v).k # "raise"

\* server.py:260-291: the handler up to the call of try_connect_wifi, where
\* it stays (dispatch = "try_connect_wifi") until the call is over; without
\* authorization or without credentials it is over at once.
write_wifi_credentials(val) ==
    /\ dispatch = "idle"
    /\ IF Rejected(is_authorized)
       THEN /\ wifi_status' = NotAuthorized
            /\ UNCHANGED wifi_credentials
            /\ event' = [kind |-> "write_wifi_credentials", val |-> val, authorized |-> is_authorized,
                         attempted |-> FALSE, out |-> Return(None), calls |-> <<>>]
            /\ dispatch' = "done"
       ELSE IF Parses(val)
       THEN /\ wifi_credentials' = GetCredentials(LoadJson(val).v).v
            /\ UNCHANGED wifi_status
            /\ event' = [kind |-> "try_connect_wifi", val |-> val, authorized |-> is_authorized]
            /\ dispatch' = "try_connect_wifi"
       ELSE \E nmcli \in BOOLEAN, saved \in SavedStores :
              \E o \in AuthorizedWrites[<<val, wifi_iface_arg, nmcli, saved>>] :
                /\ wifi_status' = o.status
                /\ UNCHANGED wifi_credentials
                /\ event' = [kind |-> "write_wifi_credentials", val |-> val, authorized |-> is_authorized,
                             attempted |-> o.attempted, out |-> o.out, calls |-> o.calls]
                /\ dispatch' = "done"
    /\ UNCHANGED <<is_authorized, value, wifi_iface_arg>>

\* server.py:286-301: try_connect_wifi is over, by a result or by an
\* exception, and the handler records the status.
try_connect_wifi_returns ==
    /\ dispatch = "try_connect_wifi"
    /\ \E nmcli \in BOOLEAN, saved \in SavedStores :
         \E o \in AuthorizedWrites[<<event.val, wifi_iface_arg, nmcli, saved>>] :
           /\ wifi_status' = o.status
           /\ event' = [kind |-> "write_wifi_credentials", val |-> event.val,
                        authorized |-> event.authorized,
                        attempted |-> o.attempted, out |-> o.out, calls |-> o.calls]
    /\ dispatch' = "done"
    /\ UNCHANGED <<is_authorized, wifi_credentials, value, wifi_iface_arg>>

\* server.py:303-305
read_wifi_status ==
    /\ dispatch = "idle"
    /\ event' = [kind |-> "read_wifi_status", response |-> DumpStatus(wifi_status)]
    /\ dispatch' = "done"
    /\ UNCHANGED <<is_authorized, wifi_status, wifi_credentials, value, wifi_iface_arg>>

\* server.py:241-243
read_hub_info ==
    /\ dispatch = "idle"
    /\ event' = [kind |-> "read_hub_info", response |-> HUB_IDENTITY]
    /\ dispatch' = "done"
    /\ UNCHANGED <<is_authorized, wifi_status, wifi_credentials, value, wifi_iface_arg>>

\* server.py:226-227
read_value ==
    /\ dispatch = "idle"
    /\ event' = [kind |-> "read_value", response |-> value]
    /\ dispatch' = "done"
    /\ UNCHANGED <<is_authorized, wifi_status, wifi_credentials, value, wifi_iface_arg>>

\* server.py:229-239
write_value(val) ==
    /\ dispatch = "idle"
    /\ value' = val
    /\ event' = [kind |-> "write_value", val |-> val]
    /\ dispatch' = "done"
    /\ UNCHANGED <<is_authorized, wifi_status, wifi_credentials, wifi_iface_arg>>

\* server.py:314-315
on_connect ==
    /\ dispatch = "idle"
    /\ event' = [kind |-> "on_connect"]
    /\ dispatch' = "done"
    /\ UNCHANGED <<is_authorized, wifi_status, wifi_credentials, value, wifi_iface_arg>>

\* server.py:317-318
on_disconnect_resets ==
    /\ dispatch = "idle"
    /\ is_authorized' = FALSE
    /\ event' = [kind |-> "on_disconnect"]
    /\ dispatch' = "done"
    /\ UNCHANGED <<wifi_status, wifi_credentials, value, wifi_iface_arg>>

on_disconnect ==
    /\ dispatch = "idle"
    /\ event' = [kind |-> "on_disconnect"]
    /\ dispatch' = "done"
    /\ UNCHANGED <<is_authorized, wifi_status, wifi_credentials, value, wifi_iface_arg>>

\* server.py:386: the callback has returned; the main loop waits for the
\* next event.
MainLoop ==
    /\ dispatch = "done"
    /\ dispatch' = "idle"
    /\ event' = NoEvent
    /\ UNCHANGED <<is_authorized, wifi_status, wifi_credentials, value, wifi_iface_arg>>

Next ==
    \/ \E val \in AuthWrites : write_auth(val)
    \/ \E val \in CredentialWrites : write_wifi_credentials(val)
    \/ try_connect_wifi_returns
    \/ read_wifi_status
    \/ read_hub_info
    \/ read_value
    \/ \E val \in GenericWrites : write_value(val)
    \/ on_connect
    \/ on_disconnect
    \/ MainLoop

Spec == Init /\ [][Next]_vars

---------------------------------------------------------------------------
(* Vocabulary of the properties: what the recorded calls of the last       *)
(* credential write show.                                                  *)

WifiWrite == event.kind = "write_wifi_credentials"

Failure(reason) == [success |-> Some(FALSE), reason |-> reason]

Success(reason) == [success |-> Some(TRUE), reason |-> reason]

\* The fallback's commands: delete, add, modify and up of the profile
\* bleprov-<ssid>. (The clean-up of saved profiles deletes by uuid.)
IsFallbackCall(c) ==
    /\ c.cmd[2] = "con"
    /\ \/ c.cmd[3] \in {"add", "modify", "up"}
       \/ c.cmd[3] = "delete" /\ StartsWith(c.cmd[4], "bleprov-")

FallbackCalls == {i \in 1..Len(event.calls) : IsFallbackCall(event.calls[i])}

IsConnectCall(c) == c.cmd[2] = "dev" /\ c.cmd[3] = "wifi" /\ c.cmd[4] = "connect"

ConnectCalls == {i \in 1..Len(event.calls) : IsConnectCall(event.calls[i])}

\* C1: a credential write handled while not authorized records exactly
\* {success: false, reason: "not authorized"} and runs no nmcli command.
C1_Unauthorized ==
    (WifiWrite /\ ~event.authorized) =>
        /\ wifi_status = Failure("not authorized")
        /\ event.calls = <<>>
        /\ ~event.attempted

\* A well-formed credential write was rejected for want of authorization.
C1_Witness ==
    /\ WifiWrite
    /\ ~event.authorized
    /\ event.val.utf8 /\ event.val.json.t = "dict"
    /\ event.val.json.ssid = JStr("HomeNet")
    /\ wifi_status.reason = "not authorized"

\* Bytes that are whitespace to str.strip().
IsBlankByte(b) == b \in {9, 10, 11, 12, 13, 28, 29, 30, 31, 32}

\* val is the configured token with nothing but whitespace around it.
IsPaddedToken(val) ==
    \E i \in 1..(Len(val) + 1) :
        /\ i + Len(auth_token) - 1 <= Len(val)
        /\ SubSeq(val, i, i + Len(auth_token) - 1) = auth_token
        /\ \A j \in 1..Len(val) :
              (j < i \/ j > i + Len(auth_token) - 1) => IsBlankByte(val[j])

\* C2: after an auth write the flag tells whether the bytes written, with
\* surrounding whitespace removed, are the configured token; whatever was
\* written before plays no part.
C2_AuthFlag ==
    (event.kind = "write_auth") => (is_authorized = IsPaddedToken(event.val))

\* A padded token was accepted although the credential channel had already
\* recorded a rejection.
C2_Witness ==
    /\ event.kind = "write_auth"
    /\ is_authorized
    /\ Len(event.val) > Len(auth_token)
    /\ wifi_status.reason = "not authorized"

\* What the bytes of the last credential write are.
Undecodable == ~event.val.utf8

NotAnObject == event.val.utf8 /\ event.val.json.t # "dict"

IsObject == event.val.utf8 /\ event.val.json.t = "dict"

SsidMissing == IsObject /\ event.val.json.ssid \in {Absent, JNull, JStr("")}

Handled == WifiWrite /\ event.authorized

Ssid == event.val.json.ssid.s

Password == IF event.val.json.password.m = "str" THEN event.val.json.password.s ELSE ""

\* The interface the attempt works on: the configured one, else the one
\* picked from the first call's device listing.
ResolvedIface ==
    IF wifi_iface_arg # "" THEN wifi_iface_arg
    ELSE PickWifiDev(WifiDevs(event.calls[1].res.stdout))[1]

Connect == event.calls[CHOOSE i \in ConnectCalls : TRUE]

ConnectMade == Handled /\ ConnectCalls # {}

ConnectRefused == ConnectMade /\ Connect.res.k = "exit" /\ Connect.res.returncode # 0

\* What a refused command leaves as its message: what it printed, without
\* the line end, else the given default.
IsMessageOf(reason, res, default) ==
    IF res.stderr # "" THEN reason \o "\n" = res.stderr
    ELSE IF res.stdout # "" THEN reason \o "\n" = res.stdout
    ELSE reason = default

IsConnectMessage(reason) == IsMessageOf(reason, Connect.res, "nmcli connect failed")

StatusText(ok, reason) == "{\"success\": " \o ok \o ", \"reason\": \"" \o reason \o "\"}"

\* C4: when the direct connect of an authorized write exits with 0, the
\* status becomes {success: true, reason: "connected via <iface>"} for the
\* resolved interface and no command on the bleprov profile is run; a status
\* read leaves the status as it is and returns it as JSON text.
C4_DirectSuccess ==
    /\ [](/\ (ConnectMade /\ Connect.res.k = "exit" /\ Connect.res.returncode = 0) =>
                /\ wifi_status = Success("connected via " \o ResolvedIface)
                /\ Connect.cmd[7] = ResolvedIface
                /\ FallbackCalls = {}
          /\ \A i \in {"wlan0", "wlan1"} :
                (event.kind = "read_wifi_status" /\ wifi_status = Success("connected via " \o i)) =>
                    event.response = StatusText("true", "connected via " \o i))
    /\ [][event'.kind \in {"none", "read_wifi_status"} => wifi_status' = wifi_status]_vars

\* A status read returned the success of a direct connect on the interface
\* that detection picked.
C4_Witness ==
    /\ event.kind = "read_wifi_status"
    /\ wifi_iface_arg = ""
    /\ event.response = "{\"success\": true, \"reason\": \"connected via wlan1\"}"

\* The visibility query of the attempt listed the ssid.
Listing == event.calls[CHOOSE i \in 1..Len(event.calls) : event.calls[i].cmd[4] = "SSID"]

Listed ==
    /\ Listing.res.k = "exit"
    /\ Listing.res.returncode = 0
    /\ Contains("\n" \o Listing.res.stdout, "\n" \o Ssid \o "\n")

NotFoundReported == Contains(Connect.res.stderr \o Connect.res.stdout, "No network with SSID")

\* C5: when the direct connect is refused, commands on the bleprov profile
\* are run exactly when the ssid was not listed or the message speaks of no
\* network with that SSID; otherwise the status is a failure whose reason is
\* the message of the refused connect.
C5_FallbackCondition ==
    ConnectRefused =>
        /\ (FallbackCalls # {}) <=> (~Listed \/ NotFoundReported)
        /\ (FallbackCalls = {}) =>
              /\ wifi_status.success = Some(FALSE)
              /\ IsConnectMessage(wifi_status.reason)

\* A listed ssid whose connect was refused as not found went to the fallback.
C5_Witness ==
    /\ ConnectRefused
    /\ Listed
    /\ NotFoundReported
    /\ FallbackCalls # {}

\* The commands run on the bleprov profile, in the order they were run.
FallbackCmds ==
    LET first == CHOOSE i \in FallbackCalls : \A j \in FallbackCalls : i <= j
        tail  == SubSeq(event.calls, first, Len(event.calls))
    IN  [i \in 1..Len(tail) |-> tail[i].cmd]

Activations == {i \in FallbackCalls : event.calls[i].cmd[3] = "up"}

Activation == event.calls[CHOOSE i \in Activations : TRUE]

Activated == Handled /\ Activations # {}

\* C6: an attempt that issues the activation has run, on the profile
\* bleprov-<ssid> and in this order: delete, add for the resolved interface,
\* modify wifi.hidden yes, then, exactly when the password is not empty,
\* modify wifi-sec.key-mgmt wpa-psk and modify wifi-sec.psk <password>, and
\* the activation last.
C6_FallbackOrder ==
    Activated =>
        LET con_name == "bleprov-" \o Ssid
        IN  FallbackCmds =
              << <<"nmcli", "con", "delete", con_name>>,
                 <<"nmcli", "con", "add", "type", "wifi", "ifname", ResolvedIface,
                   "con-name", con_name, "ssid", Ssid>>,
                 <<"nmcli", "con", "modify", con_name, "wifi.hidden", "yes">> >>
              \o (IF Password # ""
                  THEN << <<"nmcli", "con", "modify", con_name, "wifi-sec.key-mgmt", "wpa-psk">>,
                          <<"nmcli", "con", "modify", con_name, "wifi-sec.psk", Password>> >>
                  ELSE <<>>)
              \o << <<"nmcli", "con", "up", con_name>> >>

\* A profile with a pre-shared key was activated on the detected interface.
C6_Witness ==
    /\ Activated
    /\ Password = "secret1"
    /\ wifi_iface_arg = ""
    /\ Len(FallbackCmds) = 6

\* C7: an activation that exits with 0 leaves {success: true, reason:
\* "connected (profile) via <iface>"}; one that is refused leaves a failure
\* whose reason is its message, or the message of the refused direct connect
\* when it printed nothing; and an attempt that ran commands on the bleprov
\* profile reports success only when the activation exited with 0.
C7_FallbackOutcome ==
    /\ (Activated /\ Activation.res.k = "exit") =>
          IF Activation.res.returncode = 0
          THEN wifi_status = Success("connected (profile) via " \o ResolvedIface)
          ELSE /\ wifi_status.success = Some(FALSE)
               /\ IF Activation.res.stderr \o Activation.res.stdout # ""
                  THEN IsMessageOf(wifi_status.reason, Activation.res, "")
                  ELSE IsConnectMessage(wifi_status.reason)
    /\ (Handled /\ FallbackCalls # {} /\ wifi_status.success = Some(TRUE)) =>
          /\ Activations # {}
          /\ Activation.res.k = "exit"
          /\ Activation.res.returncode = 0

\* A refused activation that printed nothing left the message of the refused
\* direct connect.
C7_Witness ==
    /\ Activated
    /\ Activation.res.k = "exit"
    /\ Activation.res.returncode # 0
    /\ Activation.res.stderr = ""
    /\ wifi_status = Failure("Error: No network with SSID 'HomeNet' found.")

\* C8: a direct connect that times out leaves {success: false, reason:
\* "timeout"} and no command on the bleprov profile is run, whether or not
\* the ssid was listed.
C8_ConnectTimeout ==
    (ConnectMade /\ Connect.res.k = "TimeoutExpired") =>
        /\ wifi_status = Failure("timeout")
        /\ event.out = Return([ok |-> FALSE, reason |-> "timeout"])
        /\ FallbackCalls = {}

\* The connect timed out for an ssid that the visibility query did not list.
C8_Witness ==
    /\ ConnectMade
    /\ Connect.res.k = "TimeoutExpired"
    /\ Listing.res.k = "exit"
    /\ ~Listed
    /\ wifi_status.reason = "timeout"

\* A command of the fallback other than the initial delete timed out.
FallbackTimeouts ==
    {i \in FallbackCalls : /\ event.calls[i].cmd[3] \in {"add", "modify", "up"}
                           /\ event.calls[i].res.k = "TimeoutExpired"}

\* C9: when the add, a modify or the activation of the fallback times out,
\* no further command is run and the status is a failure whose reason is
\* neither a parse-error reason nor the message of the direct connect.
C9_FallbackTimeout ==
    (Handled /\ FallbackTimeouts # {}) =>
        /\ \A i \in FallbackTimeouts : i = Len(event.calls)
        /\ wifi_status.success = Some(FALSE)
        /\ ~StartsWith(wifi_status.reason, "invalid json")
        /\ ~IsConnectMessage(wifi_status.reason)

\* C10: try_connect_wifi called with an empty ssid returns (False, "missing
\* ssid") and runs no nmcli command, interface detection included.
C10_MissingSsid ==
    (Handled /\ IsObject /\ event.val.json.ssid = JStr("")) =>
        /\ event.attempted
        /\ event.out = Return([ok |-> FALSE, reason |-> "missing ssid"])
        /\ event.calls = <<>>

\* The empty ssid was turned down where the interface would have had to be
\* detected.
C10_Witness ==
    /\ Handled
    /\ IsObject
    /\ event.val.json.ssid = JStr("")
    /\ wifi_iface_arg = ""
    /\ event.attempted
    /\ event.out.v.reason = "missing ssid"

\* The attempt began with the device listing, as it does when no interface
\* is configured.
Enumerated ==
    /\ Handled
    /\ event.attempted
    /\ event.calls # <<>>
    /\ event.calls[1].cmd = <<"nmcli", "-t", "-f", "DEVICE,TYPE,STATE", "dev">>

Enumeration == event.calls[1]

\* C11: with no interface configured, a device listing without any wifi
\* entry ends the attempt at once: the status is a failure whose reason
\* begins with "no wifi interface found" and the listing is the only
\* command run.
C11_NoWifiInterface ==
    (/\ Enumerated
     /\ Enumeration.res.k = "exit"
     /\ Enumeration.res.returncode = 0
     /\ ~Contains(Enumeration.res.stdout, ":wifi:")) =>
        /\ wifi_iface_arg = ""
        /\ wifi_status.success = Some(FALSE)
        /\ StartsWith(wifi_status.reason, "no wifi interface found")
        /\ Len(event.calls) = 1

\* A listing of an ethernet and a loopback device only ended the attempt.
C11_Witness ==
    /\ Enumerated
    /\ Enumeration.res.k = "exit"
    /\ Enumeration.res.stdout = "eth0:ethernet:connected\nlo:loopback:unmanaged\n"
    /\ wifi_status.reason = "no wifi interface found (nmcli dev shows no TYPE=wifi)"

---------------------------------------------------------------------------
(* The helpers of try_connect_wifi on their own: the choice of the          *)
(* interface over every device listing of up to MaxDevs devices.           *)

MaxDevs == 3

\* What a line of `nmcli -t -f DEVICE,TYPE,STATE dev` may say of a device.
DevKinds ==
    { [type |-> "wifi", state |-> "connected"],
      [type |-> "wifi", state |-> "disconnected"],
      [type |-> "ethernet", state |-> "connected"],
      [type |-> "wifi-p2p", state |-> "disconnected"] }

DevLists == UNION {[1..k -> DevKinds] : k \in 0..MaxDevs}

\* Devices are named after their kind and their place in the listing.
DevName(devs, i) ==
    (CASE devs[i].type = "wifi" -> "wlan"
       [] devs[i].type = "ethernet" -> "eth"
       [] OTHER -> "p2p-dev-wlan") \o ToString(i - 1)

RECURSIVE DevListing(_, _)
DevListing(devs, i) ==
    IF i > Len(devs) THEN ""
    ELSE DevName(devs, i) \o ":" \o devs[i].type \o ":" \o devs[i].state \o "\n"
         \o DevListing(devs, i + 1)

PinnedNames == {None, Some("wlan9")}

\* server.py:133-135 called with a given interface or none, nmcli printing
\* the listing of devs.
choose_interface ==
    /\ dispatch = "idle"
    /\ \E pin \in PinnedNames, devs \in DevLists, nmcli \in BOOLEAN :
         \E o \in ChooseInterface(World(nmcli, <<>>), pin, {DevListing(devs, 1)}) :
           event' = [kind |-> "ChooseInterface", wifi_iface |-> pin, devs |-> devs,
                     v |-> o.v, calls |-> o.w.calls]
    /\ dispatch' = "done"
    /\ UNCHANGED <<is_authorized, wifi_status, wifi_credentials, value, wifi_iface_arg>>

NextInterface == choose_interface \/ MainLoop

SpecInterface == Init /\ [][NextInterface]_vars

\* The wifi devices of a listing, by place.
WifiPlaces(devs) == {i \in 1..Len(devs) : devs[i].type = "wifi"}

ConnectedPlaces(devs) == {i \in WifiPlaces(devs) : devs[i].state = "connected"}

First(places) == CHOOSE i \in places : \A j \in places : i <= j

\* C12: a given interface name is the one used and nothing is listed;
\* otherwise, for every listing that nmcli delivers, the choice is the first
\* connected wifi device if there is one, else the first wifi device, and
\* never a device of another type.
C12_InterfaceChoice ==
    (event.kind = "ChooseInterface") =>
        /\ (event.wifi_iface # None) =>
              /\ event.v = event.wifi_iface
              /\ event.calls = <<>>
        /\ (/\ event.wifi_iface = None
            /\ event.calls[1].res.k = "exit"
            /\ event.calls[1].res.returncode = 0) =>
              LET devs == event.devs
              IN  /\ Len(event.calls) = 1
                  /\ event.v =
                       IF ConnectedPlaces(devs) # {}
                       THEN Some(DevName(devs, First(ConnectedPlaces(devs))))
                       ELSE IF WifiPlaces(devs) # {}
                       THEN Some(DevName(devs, First(WifiPlaces(devs))))
                       ELSE None
                  /\ \A i \in 1..Len(devs) :
                        event.v = Some(DevName(devs, i)) => devs[i].type = "wifi"

\* The third device was chosen: the second wifi device, the only connected
\* one, behind an ethernet device.
C12_Witness ==
    /\ event.kind = "ChooseInterface"
    /\ event.wifi_iface = None
    /\ Len(event.devs) = 3
    /\ event.devs[1].type = "ethernet"
    /\ event.devs[2] = [type |-> "wifi", state |-> "disconnected"]
    /\ event.v = Some("wlan2")

---------------------------------------------------------------------------
(* forget_saved_wifi_profiles on its own, over every store of up to         *)
(* MaxProfiles saved profiles.                                             *)

MaxProfiles == 2

\* Saved profiles: of the network asked for, of another network, an
\* ethernet profile of the same name, a network whose SSID ends in a space,
\* and a profile of the network asked for whose name holds a colon.
ProfileKinds ==
    { [name |-> "HomeNet", type |-> "802-11-wireless", ssid |-> "HomeNet"],
      [name |-> "Cafe", type |-> "802-11-wireless", ssid |-> "Cafe"],
      [name |-> "HomeNet", type |-> "802-3-ethernet", ssid |-> ""],
      [name |-> "HomeNet 1", type |-> "802-11-wireless", ssid |-> "HomeNet "],
      [name |-> "Home:Net", type |-> "802-11-wireless", ssid |-> "HomeNet"] }

\* The profile of place i has the uuid "u<i>".
ProfileStores ==
    UNION { { [i \in 1..k |-> [name |-> f[i].name, uuid |-> "u" \o ToString(i),
                               type |-> f[i].type, ssid |-> f[i].ssid]]
              : f \in [1..k -> ProfileKinds] }
            : k \in 0..MaxProfiles }

ForgetSsids == {"HomeNet", ""}

\* server.py:154: a call of forget_saved_wifi_profiles(ssid).
forget ==
    /\ dispatch = "idle"
    /\ \E saved \in ProfileStores, ssid \in ForgetSsids, nmcli \in BOOLEAN :
         \E o \in forget_saved_wifi_profiles(World(nmcli, saved), ssid) :
           event' = [kind |-> "forget_saved_wifi_profiles", saved |-> saved, ssid |-> ssid,
                     out |-> o.out, calls |-> o.w.calls]
    /\ dispatch' = "done"
    /\ UNCHANGED <<is_authorized, wifi_status, wifi_credentials, value, wifi_iface_arg>>

NextForget == forget \/ MainLoop

SpecForget == Init /\ [][NextForget]_vars

Forgot == event.kind = "forget_saved_wifi_profiles"

\* The deletions the call issued, and the uuids they named.
Deletions == {i \in 1..Len(event.calls) : /\ event.calls[i].cmd[2] = "con"
                                          /\ event.calls[i].cmd[3] = "delete"}

DeletedUuids == {event.calls[i].cmd[4] : i \in Deletions}

\* The saved wifi profiles whose stored SSID is the ssid asked for.
MatchingUuids ==
    {event.saved[i].uuid : i \in {j \in 1..Len(event.saved) :
                                    /\ event.saved[j].type = "802-11-wireless"
                                    /\ event.saved[j].ssid = event.ssid}}

Succeeded(c) == c.res.k = "exit" /\ c.res.returncode = 0

\* C13: the purge deletes only saved wifi profiles whose stored SSID is
\* exactly the ssid asked for, and, when no command fails, every one of them.
C13_PurgeExact ==
    Forgot =>
        /\ DeletedUuids \subseteq MatchingUuids
        /\ (\A i \in 1..Len(event.calls) : Succeeded(event.calls[i])) =>
              DeletedUuids = MatchingUuids

\* C14: a deletion that fails, refused or timed out, does not keep the purge
\* from running to its end, and the count returned is the number of
\* deletions that succeeded.
C14_PurgeCount ==
    Forgot =>
        /\ (\A i \in 1..Len(event.calls) : ~Succeeded(event.calls[i]) => i \in Deletions) =>
              event.out.k = "return"
        /\ (event.out.k = "return") =>
              event.out.v = Cardinality({i \in Deletions : Succeeded(event.calls[i])})

---------------------------------------------------------------------------
(* The callbacks and the main loop.                                        *)

\* C15: while the credential handler is inside try_connect_wifi, a status
\* read and an identity read can be handled.
C15_ReadsDuringAttempt ==
    (dispatch = "try_connect_wifi") =>
        /\ ENABLED read_wifi_status
        /\ ENABLED read_hub_info

NotAttempted == [success |-> None, reason |-> "not attempted"]

SuccessText == IF wifi_status.success = None THEN "null"
               ELSE IF wifi_status.success = Some(TRUE) THEN "true" ELSE "false"

\* C16: the status is {success: null, reason: "not attempted"} until a
\* credential write has been handled; only the end of a credential write
\* changes it, to a boolean success and the reason of that same write; and a
\* status read returns the pair as it stands, as JSON text.
C16_WholeOutcome ==
    /\ wifi_status = NotAttempted
    /\ [](/\ (event.kind = "read_wifi_status") =>
                event.response = StatusText(SuccessText, wifi_status.reason)
          /\ (wifi_status.success = None) => wifi_status = NotAttempted
          /\ (WifiWrite /\ event.attempted /\ event.out.k = "return") =>
                wifi_status = [success |-> Some(event.out.v.ok), reason |-> event.out.v.reason])
    /\ [][/\ (wifi_status' # wifi_status) => event'.kind = "write_wifi_credentials"
          /\ (event'.kind = "write_wifi_credentials") => wifi_status'.success \in {Some(TRUE), Some(FALSE)}]_vars

\* A status read before any credential write returned the initial pair.
C16_Witness ==
    /\ event.kind = "read_wifi_status"
    /\ is_authorized
    /\ event.response = "{\"success\": null, \"reason\": \"not attempted\"}"

\* C17: whatever the nmcli commands do, the credential handler comes to its
\* end with a boolean success recorded, an exception that left
\* try_connect_wifi included; the handler inside try_connect_wifi can always
\* go on, a finished callback returns to the main loop, and the main loop
\* then takes auth writes, credential writes and status reads.
C17_HandlerEnds ==
    /\ WifiWrite =>
          /\ wifi_status.success \in {Some(TRUE), Some(FALSE)}
          /\ (event.out.k = "raise") => wifi_status.success = Some(FALSE)
    /\ (dispatch = "try_connect_wifi") => ENABLED try_connect_wifi_returns
    /\ (dispatch = "done") => ENABLED MainLoop
    /\ (dispatch = "idle") =>
          /\ ENABLED (\E val \in AuthWrites : write_auth(val))
          /\ ENABLED (\E val \in CredentialWrites : write_wifi_credentials(val))
          /\ ENABLED read_wifi_status

\* An exception left try_connect_wifi and the handler recorded a failure.
C17_Witness ==
    /\ WifiWrite
    /\ event.attempted
    /\ event.out.k = "raise"
    /\ event.out.e.k = "TimeoutExpired"
    /\ wifi_status.success = Some(FALSE)

\* The attempt ran nmcli and nmcli was missing.
ToolMissing ==
    /\ Handled
    /\ event.attempted
    /\ event.calls # <<>>
    /\ \A i \in 1..Len(event.calls) : event.calls[i].res.k = "FileNotFoundError"

\* C18: an attempt that finds nmcli missing records a failure whose reason
\* is "nmcli not found ...", unlike the reasons of a timeout, of a refusal
\* and of a listing without wifi devices, also when the first command to
\* miss it is the device listing.
C18_ToolNotFound ==
    ToolMissing =>
        /\ wifi_status.success = Some(FALSE)
        /\ StartsWith(wifi_status.reason, "nmcli not found")
        /\ ~StartsWith(wifi_status.reason, "no wifi interface found")
        /\ wifi_status.reason # "timeout"

Ran(cmd) == \E i \in 1..Len(event.calls) : event.calls[i].cmd = cmd

\* The attempt had an interface and went on to switch the radio on.
Prepared == Handled /\ event.attempted /\ Ran(<<"nmcli", "radio", "wifi", "on">>)

Failed(c) == ~Succeeded(c)

\* C19: once the radio step is reached, the rescan, the listing of saved
\* profiles and the visibility query are run and the direct connect is
\* issued after them, whatever each of them came to; and when the
\* visibility query fails, a refused direct connect goes to the fallback.
C19_BestEffort ==
    Prepared =>
        /\ Ran(<<"nmcli", "dev", "wifi", "rescan", "ifname", ResolvedIface>>)
        /\ Ran(<<"nmcli", "-t", "-f", "NAME,UUID,TYPE", "con", "show">>)
        /\ Ran(<<"nmcli", "-t", "-f", "SSID", "dev", "wifi", "list", "ifname", ResolvedIface>>)
        /\ ConnectCalls # {}
        /\ \A i \in ConnectCalls : \A j \in 1..Len(event.calls) :
              (event.calls[j].cmd[2] = "radio" \/ event.calls[j].cmd[4] \in {"rescan", "SSID"}) => j < i
        /\ (Failed(Listing) /\ ConnectRefused) => FallbackCalls # {}

\* The visibility query was refused, the connect was refused for want of
\* secrets, and the attempt went to the fallback.
C19_Witness ==
    /\ Prepared
    /\ Listing.res.k = "exit"
    /\ Listing.res.returncode # 0
    /\ ConnectRefused
    /\ ~NotFoundReported
    /\ FallbackCalls # {}

\* C20: only an auth write changes the flag; every other callback, the
\* credential handler at each of its steps included, leaves it as it was,
\* and a credential write is turned down exactly when the flag is false.
C20_FlagOnlyByAuth ==
    /\ [][(event'.kind # "write_auth") => (is_authorized' = is_authorized)]_vars
    /\ [](WifiWrite =>
            /\ event.authorized = is_authorized
            /\ (wifi_status = Failure("not authorized")) <=> ~is_authorized)

\* The central disconnected after a successful attempt and the flag is
\* still set.
C20_Witness ==
    /\ event.kind = "on_disconnect"
    /\ is_authorized
    /\ wifi_status.success = Some(TRUE)

====
